---- MODULE Spec2Model ----
(***************************************************************************)
(* Model of packages/plugin-sui/src/evaluators/tradeEvaluator.ts:          *)
(*   - handler: the recommendation-extraction pipeline ("evaluate"),       *)
(*   - tradeEvaluator.validate: the applicability check ("isApplicable"),  *)
(*   - formatRecommendations: the history formatter.                       *)
(* JavaScript values are tagged records, strings are sequences of          *)
(* one-character strings, arrays are sequences.                            *)
(***************************************************************************)
EXTENDS Integers, Sequences, FiniteSets

VARIABLES
    message,                \* the Memory passed to validate / handler
    setting,                \* runtime.getSetting("POSTGRES_URL")
    pc,                     \* position of the handler run
    state,                  \* result of runtime.composeState(message)
    calls,                  \* log of collaborator calls made by the run
    shouldProcess,          \* what generateTrueOrFalse returned
    recentRecommendations,  \* the array getMemories returned (a mutable array)
    context,                \* recentRecommendations text placed in the prompt
    recommendations,        \* what generateObjectArray returned
    result,                 \* the array the handler returned
    outcome,                \* "running", "returned" or the error thrown
    valid,                  \* what validate returned
    inputs,                 \* formatRecommendations: argument at each call
    outputs                 \* formatRecommendations: string returned by each call

vars == <<message, setting, pc, state, calls, shouldProcess,
          recentRecommendations, context, recommendations, result, outcome,
          valid, inputs, outputs>>

---------------------------------------------------------------------------
(* Bounds of the model *)

MaxTextLen == 6
MaxStored == 2
MaxCandidates == 2
MaxRecs == 3
MaxFormatCalls == 2

(* Program constants *)

MinTextLength == 5
MemoryCount == 20

---------------------------------------------------------------------------
(* JavaScript values *)

Undefined == [t |-> "undefined", s |-> <<>>, b |-> FALSE, n |-> 0]
Null == [t |-> "null", s |-> <<>>, b |-> FALSE, n |-> 0]
Str(chars) == [t |-> "string", s |-> chars, b |-> FALSE, n |-> 0]
Bool(v) == [t |-> "boolean", s |-> <<>>, b |-> v, n |-> 0]
Num(k) == [t |-> "number", s |-> <<>>, b |-> FALSE, n |-> k]

\* ToBoolean, as applied by !, && and if
Truthy(v) ==
    CASE v.t = "undefined" -> FALSE
      [] v.t = "null" -> FALSE
      [] v.t = "string" -> v.s # <<>>
      [] v.t = "boolean" -> v.b
      [] v.t = "number" -> v.n # 0

\* The string a template literal `${v}` yields
TemplateString(v) ==
    CASE v.t = "undefined" -> <<"u", "n", "d", "e", "f", "i", "n", "e", "d">>
      [] v.t = "null" -> <<"n", "u", "l", "l">>
      [] v.t = "string" -> v.s
      [] v.t = "boolean" -> IF v.b THEN <<"t", "r", "u", "e">>
                                   ELSE <<"f", "a", "l", "s", "e">>
      [] v.t = "number" -> <<"#">>

WhiteSpace == {" ", "\t", "\n"}

RECURSIVE TrimStart(_)
TrimStart(s) ==
    IF s # <<>> /\ Head(s) \in WhiteSpace THEN TrimStart(Tail(s)) ELSE s

RECURSIVE TrimEnd(_)
TrimEnd(s) ==
    IF s # <<>> /\ s[Len(s)] \in WhiteSpace
    THEN TrimEnd(SubSeq(s, 1, Len(s) - 1))
    ELSE s

\* String.prototype.trim
Trim(s) == TrimEnd(TrimStart(s))

\* Array.prototype.reverse (the order it leaves the array in)
Reverse(a) == [i \in 1..Len(a) |-> a[Len(a) + 1 - i]]

\* Array.prototype.join
RECURSIVE Join(_, _)
Join(strs, sep) ==
    IF strs = <<>> THEN <<>>
    ELSE IF Len(strs) = 1 THEN strs[1]
    ELSE strs[1] \o sep \o Join(Tail(strs), sep)

\* All sequences over S of length at most n
SeqUpTo(S, n) == UNION {[1..k -> S] : k \in 0..n}

---------------------------------------------------------------------------
(* Input domains *)

Text(n) == [i \in 1..n |-> "x"]

Ids == {"agent", "alice"}
Rooms == {"room1", "room2"}

\* Memory: the fields validate and handler read
Messages ==
    [text : {Text(n) : n \in 0..MaxTextLen}, userId : Ids, agentId : Ids,
     roomId : Rooms]

\* Messages handed to handler: texts just below and at the length limit
HandlerMessages ==
    [text : {Text(MinTextLength - 1), Text(MinTextLength)}, userId : Ids,
     agentId : {"agent"}, roomId : Rooms]

\* Values of the POSTGRES_URL setting: unset, empty, a connection string
Settings == {Null, Str(<<>>), Str(<<"p", "g">>)}

\* A stored recommendation memory: content is (rec.content)?.content
Memory(c) == [content |-> c]

A == Str(<<"A">>)
B == Str(<<"B">>)
C == Str(<<"C">>)

MemoryContents == {A, B, C, Undefined}
StoredContents == {A, B}

\* A candidate as generateObjectArray may return it: any field may be
\* missing or of another type, and an element may be null
Cand(ak, tk, ca, rc, ty, cv) ==
    [isNull |-> FALSE, alreadyKnown |-> ak, ticker |-> tk,
     contractAddress |-> ca, recommender |-> rc, type |-> ty,
     conviction |-> cv]

NullCandidate ==
    [isNull |-> TRUE, alreadyKnown |-> Undefined, ticker |-> Undefined,
     contractAddress |-> Undefined, recommender |-> Undefined,
     type |-> Undefined, conviction |-> Undefined]

Ticker == Str(<<"S", "A", "M">>)
Address == Str(<<"5", "T", "Q">>)
User1 == Str(<<"u", "1">>)
User2 == Str(<<"u", "2">>)
Padded == Str(<<" ", "u", "1", " ">>)
Blank == Str(<<" ", " ">>)
Empty == Str(<<>>)
Buy == Str(<<"b", "u", "y">>)
DontBuy == Str(<<"d", "o", "n", "t", "_", "b", "u", "y">>)
High == Str(<<"h", "i", "g", "h">>)
Medium == Str(<<"m", "e", "d", "i", "u", "m">>)

Candidates ==
    { Cand(Bool(FALSE), Ticker, Address, User2, Buy, Medium),
      Cand(Bool(FALSE), Ticker, Address, User1, DontBuy, High),
      Cand(Undefined, Ticker, Null, User1, Buy, High),
      Cand(Bool(FALSE), Empty, Address, User1, Buy, High),
      Cand(Bool(TRUE), Ticker, Address, User1, Buy, High),
      Cand(Bool(FALSE), Undefined, Undefined, User1, Buy, High),
      Cand(Bool(FALSE), Empty, Null, User1, Buy, High),
      Cand(Bool(FALSE), Ticker, Address, Undefined, Buy, High),
      Cand(Bool(FALSE), Ticker, Address, Empty, Buy, High),
      Cand(Bool(FALSE), Ticker, Address, Blank, Buy, High),
      Cand(Bool(FALSE), Ticker, Address, Padded, Buy, High),
      Cand(Bool(FALSE), Ticker, Address, User1, Buy, Undefined),
      Cand(Bool(FALSE), Ticker, Address, User1, Buy, Empty),
      Cand(Bool(FALSE), Ticker, Address, Num(42), Buy, High),
      Cand(Bool(TRUE), Ticker, Address, Num(42), Buy, High),
      NullCandidate }

---------------------------------------------------------------------------
(* formatRecommendations *)

\* Faulty variant: the reverse() is left out
formatWithoutReverse(recs) ==
    Join([i \in 1..Len(recs) |-> TemplateString(recs[i].content)], <<"\n">>)

\* The string returned: the array reversed, each element mapped to
\* `${rec.content?.content}`, joined with "\n"
formatRecommendations(recs) ==
    LET reversed == Reverse(recs)
        messageStrings ==
            [i \in 1..Len(reversed) |-> TemplateString(reversed[i].content)]
    IN  Join(messageStrings, <<"\n">>)

\* The argument array after the call: reverse() reverses it in place
ArrayAfterFormat(recs) == Reverse(recs)

(* tradeEvaluator.validate *)

\* Faulty variant: the length test is off by one
validateOffByOne(msg) ==
    IF Len(msg.text) <= MinTextLength
    THEN FALSE
    ELSE msg.userId # msg.agentId

validate(msg) ==
    IF Len(msg.text) < MinTextLength
    THEN FALSE
    ELSE msg.userId # msg.agentId

(* handler: the filter callback.  Reading a property of null throws, and so
   does calling trim on a truthy value that is not a string; && evaluates
   left to right and stops at the first falsy operand. *)

FilterCallback(rec) ==
    IF rec.isNull THEN "throw"
    ELSE IF Truthy(rec.alreadyKnown) THEN "drop"
    ELSE IF ~(Truthy(rec.ticker) \/ Truthy(rec.contractAddress)) THEN "drop"
    ELSE IF ~Truthy(rec.recommender) THEN "drop"
    ELSE IF ~Truthy(rec.conviction) THEN "drop"
    ELSE IF rec.recommender.t # "string" THEN "throw"
    ELSE IF Trim(rec.recommender.s) # <<>> THEN "keep"
    ELSE "drop"

FilterThrows(recs) == \E i \in 1..Len(recs) : FilterCallback(recs[i]) = "throw"

KeepCandidate(rec) == FilterCallback(rec) = "keep"

\* Faulty variant: a later candidate for a ticker already retained is dropped
RECURSIVE DedupByTicker(_)
DedupByTicker(kept) ==
    IF kept = <<>> THEN <<>>
    ELSE LET last == kept[Len(kept)]
             front == SubSeq(kept, 1, Len(kept) - 1)
         IN  IF \E j \in 1..Len(front) : front[j].ticker = last.ticker
             THEN DedupByTicker(front)
             ELSE Append(DedupByTicker(front), last)

filteredWithDedup(recs) == DedupByTicker(SelectSeq(recs, KeepCandidate))

filteredRecommendations(recs) == SelectSeq(recs, KeepCandidate)

---------------------------------------------------------------------------
(* Collaborators of handler *)

Call(fn, tableName, roomId, count) ==
    [fn |-> fn, tableName |-> tableName, roomId |-> roomId, count |-> count]

GateCall == Call("generateTrueOrFalse", "", "", 0)
\* Faulty variant: the store is asked for the default number of memories
StoreCallWithoutCount(roomId) == Call("getMemories", "recommendations", roomId, 0)

StoreCall(roomId) == Call("getMemories", "recommendations", roomId, MemoryCount)
ExtractorCall == Call("generateObjectArray", "", "", 0)

NoState == [agentId |-> "", roomId |-> ""]

\* runtime.composeState: the state carries the message's agent and room
composeState(msg) == [agentId |-> msg.agentId, roomId |-> msg.roomId]

\* What getMemories may return: at most `count` memories
StoredLists ==
    {l \in SeqUpTo({Memory(c) : c \in StoredContents}, MaxStored) :
        Len(l) <= MemoryCount}

\* What generateObjectArray may return when it does not throw
CandidateLists == SeqUpTo(Candidates, MaxCandidates)

Finish(res, out) ==
    /\ pc' = "done"
    /\ result' = res
    /\ outcome' = out

---------------------------------------------------------------------------
(* handler, one action per await *)

\* handler is invoked: it awaits runtime.composeState(message)
Start ==
    /\ pc = "idle"
    /\ pc' = "composeState"
    /\ UNCHANGED <<message, setting, state, calls, shouldProcess,
                   recentRecommendations, context, recommendations, result,
                   outcome, valid, inputs, outputs>>

\* Faulty variant: the test is negated
SkipUnlessPostgres(msg, s) == ~Truthy(s)

\* Faulty variant: handler also returns early on a message validate rejects
SkipOnPostgresOrInvalid(msg, s) == Truthy(s) \/ ~validate(msg)

\* The early return of handler; message and the setting are what is in scope
SkipOnPostgres(msg, s) == Truthy(s)

\* composeState returned: the POSTGRES_URL check, then the gate is called
ComposeStateReturns ==
    /\ pc = "composeState"
    /\ state' = composeState(message)
    /\ IF SkipOnPostgres(message, setting)
       THEN /\ Finish(<<>>, "returned")
            /\ UNCHANGED calls
       ELSE /\ pc' = "generateTrueOrFalse"
            /\ calls' = Append(calls, GateCall)
            /\ UNCHANGED <<result, outcome>>
    /\ UNCHANGED <<message, setting, shouldProcess, recentRecommendations,
                   context, recommendations, valid, inputs, outputs>>

\* Faulty variant: the answer is ignored
ProceedAlways(answer) == TRUE

\* if (!shouldProcess) return []
ProceedAfterGate(answer) == answer

\* generateTrueOrFalse returned answer: skip, or read the memory store
GateReturns ==
    /\ pc = "generateTrueOrFalse"
    /\ \E answer \in BOOLEAN :
        /\ shouldProcess' = Bool(answer)
        /\ IF ProceedAfterGate(answer)
           THEN /\ pc' = "getMemories"
                /\ calls' = Append(calls, StoreCall(state.roomId))
                /\ UNCHANGED <<result, outcome>>
           ELSE /\ Finish(<<>>, "returned")
                /\ UNCHANGED calls
    /\ UNCHANGED <<message, setting, state, recentRecommendations, context,
                   recommendations, valid, inputs, outputs>>

\* generateTrueOrFalse threw: the rejection propagates out of handler
GateFails ==
    /\ pc = "generateTrueOrFalse"
    /\ Finish(<<>>, "BackendUnavailable")
    /\ UNCHANGED <<message, setting, state, calls, shouldProcess,
                   recentRecommendations, context, recommendations, valid,
                   inputs, outputs>>

\* getMemories returned: format the history, build the context, call the
\* extractor
GetMemoriesReturns ==
    /\ pc = "getMemories"
    /\ \E stored \in StoredLists :
        /\ context' = formatRecommendations(stored)
        /\ recentRecommendations' = ArrayAfterFormat(stored)
        /\ inputs' = <<stored>>
    /\ calls' = Append(calls, ExtractorCall)
    /\ pc' = "generateObjectArray"
    /\ UNCHANGED <<message, setting, state, shouldProcess, recommendations,
                   result, outcome, valid, outputs>>

\* getMemories threw
GetMemoriesFails ==
    /\ pc = "getMemories"
    /\ Finish(<<>>, "StoreUnavailable")
    /\ UNCHANGED <<message, setting, state, calls, shouldProcess,
                   recentRecommendations, context, recommendations, valid,
                   inputs, outputs>>

\* What generateObjectArray resolved to: nothing yet, null, or an array
NotReturned == [t |-> "unset", items |-> <<>>]
NoArray == [t |-> "null", items |-> <<>>]
Array(items) == [t |-> "array", items |-> items]

\* Faulty variant: the null check is left out, so filter is called on null
ValidatingWithoutNullCheck(r) ==
    IF r.t = "null" \/ FilterThrows(r.items)
    THEN Finish(<<>>, "TypeError")
    ELSE Finish(filteredRecommendations(r.items), "returned")

\* The tail of handler once generateObjectArray returned r: null gives [],
\* otherwise the filter runs and its result (or its exception) is the outcome
Validating(r) ==
    IF r.t = "null"
    THEN Finish(<<>>, "returned")
    ELSE IF FilterThrows(r.items)
         THEN Finish(<<>>, "TypeError")
         ELSE Finish(filteredRecommendations(r.items), "returned")

ExtractorReturns ==
    /\ pc = "generateObjectArray"
    /\ \E r \in {NoArray} \cup {Array(l) : l \in CandidateLists} :
        /\ recommendations' = r
        /\ Validating(r)
    /\ UNCHANGED <<message, setting, state, calls, shouldProcess,
                   recentRecommendations, context, valid, inputs, outputs>>

\* generateObjectArray threw
ExtractorFails ==
    /\ pc = "generateObjectArray"
    /\ Finish(<<>>, "BackendUnavailable")
    /\ UNCHANGED <<message, setting, state, calls, shouldProcess,
                   recentRecommendations, context, recommendations, valid,
                   inputs, outputs>>

Returns ==
    \/ ComposeStateReturns
    \/ GateReturns
    \/ GateFails
    \/ GetMemoriesReturns
    \/ GetMemoriesFails
    \/ ExtractorReturns
    \/ ExtractorFails

Init ==
    /\ message \in HandlerMessages
    /\ setting \in Settings
    /\ pc = "idle"
    /\ state = NoState
    /\ calls = <<>>
    /\ shouldProcess = Undefined
    /\ recentRecommendations = <<>>
    /\ context = <<>>
    /\ recommendations = NotReturned
    /\ result = <<>>
    /\ outcome = "running"
    /\ valid = Undefined
    /\ inputs = <<>>
    /\ outputs = <<>>

Next == Start \/ Returns

Spec == Init /\ [][Next]_vars

---------------------------------------------------------------------------
(* validate, called on its own *)

InitValidate ==
    /\ message \in Messages
    /\ setting = Null
    /\ pc = "idle"
    /\ state = NoState
    /\ calls = <<>>
    /\ shouldProcess = Undefined
    /\ recentRecommendations = <<>>
    /\ context = <<>>
    /\ recommendations = NotReturned
    /\ result = <<>>
    /\ outcome = "running"
    /\ valid = Undefined
    /\ inputs = <<>>
    /\ outputs = <<>>

Validate ==
    /\ valid = Undefined
    /\ valid' = Bool(validate(message))
    /\ UNCHANGED <<message, setting, pc, state, calls, shouldProcess,
                   recentRecommendations, context, recommendations, result,
                   outcome, inputs, outputs>>

SpecValidate == InitValidate /\ [][Validate]_vars

---------------------------------------------------------------------------
(* formatRecommendations, called on its own on one array *)

InitFormat ==
    /\ message \in {m \in HandlerMessages : m.userId = "alice" /\ m.roomId = "room1"
                                            /\ Len(m.text) = MinTextLength}
    /\ setting = Null
    /\ pc = "idle"
    /\ state = NoState
    /\ calls = <<>>
    /\ shouldProcess = Undefined
    /\ recentRecommendations \in SeqUpTo({Memory(c) : c \in MemoryContents}, MaxRecs)
    /\ context = <<>>
    /\ recommendations = NotReturned
    /\ result = <<>>
    /\ outcome = "running"
    /\ valid = Undefined
    /\ inputs = <<>>
    /\ outputs = <<>>

FormatCall ==
    /\ Len(outputs) < MaxFormatCalls
    /\ inputs' = Append(inputs, recentRecommendations)
    /\ outputs' = Append(outputs, formatRecommendations(recentRecommendations))
    /\ recentRecommendations' = ArrayAfterFormat(recentRecommendations)
    /\ UNCHANGED <<message, setting, pc, state, calls, shouldProcess, context,
                   recommendations, result, outcome, valid>>

SpecFormat == InitFormat /\ [][FormatCall]_vars

---------------------------------------------------------------------------
(* Properties *)

CallsTo(fn) == {i \in 1..Len(calls) : calls[i].fn = fn}
ReturnedEmpty == pc = "done" /\ outcome = "returned" /\ result = <<>>

\* C1: once the gate has returned false, the run has returned the empty
\* list and generateObjectArray is not called in it.
GateShortCircuit ==
    shouldProcess = Bool(FALSE) =>
        /\ ReturnedEmpty
        /\ CallsTo("generateObjectArray") = {}

GateShortCircuitWitness ==
    /\ shouldProcess = Bool(FALSE)
    /\ pc = "done"
    /\ CallsTo("generateTrueOrFalse") # {}

\* C2: with a truthy POSTGRES_URL setting the run calls neither the gate nor
\* the extractor, whatever the message, and what it returns is the empty list.
PostgresSkip ==
    Truthy(setting) =>
        /\ CallsTo("generateTrueOrFalse") = {}
        /\ CallsTo("generateObjectArray") = {}
        /\ pc = "done" => ReturnedEmpty

PostgresSkipWitness == Truthy(setting) /\ pc = "done"

Absent(v) == v.t \in {"undefined", "null"}
NonEmptyString(v) == v.t = "string" /\ Len(v.s) > 0
NotAlreadyKnown(rec) ==
    \/ Absent(rec.alreadyKnown)
    \/ rec.alreadyKnown.t = "boolean" /\ ~rec.alreadyKnown.b
    \/ rec.alreadyKnown.t = "string" /\ Len(rec.alreadyKnown.s) = 0
    \/ rec.alreadyKnown.t = "number" /\ rec.alreadyKnown.n = 0
HasIdentifier(rec) ==
    NonEmptyString(rec.ticker) \/ NonEmptyString(rec.contractAddress)
HasRecommender(rec) ==
    /\ rec.recommender.t = "string"
    /\ \E i \in 1..Len(rec.recommender.s) : rec.recommender.s[i] \notin {" ", "\t", "\n"}
ConvictionPresent(rec) == ~Absent(rec.conviction)
ConvictionNonEmpty(rec) == NonEmptyString(rec.conviction)

PassesAsStated(rec) ==
    /\ ~rec.isNull
    /\ NotAlreadyKnown(rec)
    /\ HasIdentifier(rec)
    /\ HasRecommender(rec)
    /\ ConvictionPresent(rec)

PassesAsAmended(rec) ==
    /\ ~rec.isNull
    /\ NotAlreadyKnown(rec)
    /\ HasIdentifier(rec)
    /\ HasRecommender(rec)
    /\ ConvictionNonEmpty(rec)

ReturnedFiltered == pc = "done" /\ outcome = "returned" /\ recommendations.t = "array"

\* C4 as stated: the list returned is the subsequence of the extractor's
\* candidates that have alreadyKnown falsy, a ticker or contract address, a
\* non-blank recommender and a conviction that is present, in order, unchanged.
FilterExactAsStated ==
    ReturnedFiltered => result = SelectSeq(recommendations.items, PassesAsStated)

\* C4 as amended: the same, with the conviction present and non-empty.
FilterExact ==
    ReturnedFiltered => result = SelectSeq(recommendations.items, PassesAsAmended)

FilterExactWitness ==
    /\ ReturnedFiltered
    /\ Len(recommendations.items) = 2
    /\ Len(result) = 2
    /\ result[1].ticker = result[2].ticker
    /\ result[1].contractAddress = result[2].contractAddress
    /\ result[1].recommender # result[2].recommender

\* C5: a call of formatRecommendations leaves its argument as it was, and two
\* calls in a row on the same array return the same string.
FormatIsPure ==
    /\ \A k \in 1..Len(inputs) : inputs[k] = inputs[1]
    /\ Len(inputs) >= 1 => recentRecommendations = inputs[1]
    /\ \A k \in 1..Len(outputs) : outputs[k] = outputs[1]

\* The contents oldest first: the last element's text comes first
RECURSIVE OldestFirst(_)
OldestFirst(recs) ==
    IF recs = <<>> THEN <<>>
    ELSE IF Len(recs) = 1 THEN TemplateString(recs[1].content)
    ELSE OldestFirst(Tail(recs)) \o <<"\n">> \o TemplateString(recs[1].content)

\* C6: every call returns the contents of its argument in reversed order,
\* joined by one newline: "C\nB\nA" for [A, B, C], the empty string for [].
FormatOldestFirst ==
    \A k \in 1..Len(outputs) :
        /\ outputs[k] = OldestFirst(inputs[k])
        /\ inputs[k] = <<>> => outputs[k] = <<>>
        /\ inputs[k] = <<Memory(A), Memory(B), Memory(C)>> =>
               outputs[k] = <<"C", "\n", "B", "\n", "A">>

FormatOldestFirstWitness ==
    /\ Len(outputs) >= 1
    /\ inputs[1] = <<Memory(A), Memory(B), Memory(C)>>
    /\ outputs[1] = <<"C", "\n", "B", "\n", "A">>

\* C7: a finished run has returned a list or propagated the failure of a
\* collaborator call; ill-formed candidates never make it fail.
FilterIsTotal ==
    pc = "done" => outcome \in {"returned", "BackendUnavailable", "StoreUnavailable"}

\* C8: when the gate returned true and generateObjectArray resolved to null,
\* the run has returned the empty list.
NullExtraction ==
    (shouldProcess = Bool(TRUE) /\ recommendations.t = "null") => ReturnedEmpty

NullExtractionWitness ==
    /\ shouldProcess = Bool(TRUE)
    /\ recommendations.t = "null"
    /\ pc = "done"

\* C9: validate returns true exactly for the messages whose text has at least
\* 5 characters and whose userId differs from agentId.
ValidateExact ==
    valid # Undefined =>
        valid = Bool(Len(message.text) >= 5 /\ message.userId # message.agentId)

ValidateExactWitness ==
    /\ valid = Bool(TRUE)
    /\ Len(message.text) = 5

IsPrefix(a, b) == Len(a) <= Len(b) /\ a = SubSeq(b, 1, Len(a))

OnePass ==
    /\ IsPrefix(calls, <<GateCall,
                         Call("getMemories", "recommendations", message.roomId, 20),
                         ExtractorCall>>)
    /\ Len(calls) >= 2 => shouldProcess = Bool(TRUE)
    /\ pc = "done" <=> outcome # "running"

Rank(p) ==
    CASE p = "idle" -> 0
      [] p = "composeState" -> 1
      [] p = "generateTrueOrFalse" -> 2
      [] p = "getMemories" -> 3
      [] p = "generateObjectArray" -> 4
      [] p = "done" -> 5

\* C10: a run calls the gate, the memory store (table "recommendations", the
\* message's room, count 20) and the extractor at most once each and in that
\* order, the last two only after the gate returned true; every step moves it
\* forward (no retry), and while it has not ended the return or the failure
\* of the call it awaits is a step it can take, so it ends in a returned list
\* or a propagated failure.
SinglePass ==
    /\ []OnePass
    /\ [][Rank(pc') > Rank(pc)]_vars
    /\ [](pc \notin {"idle", "done"} => ENABLED Returns)

SinglePassWitness ==
    /\ pc = "done"
    /\ Len(calls) = 3
    /\ outcome = "returned"
    /\ message.roomId = "room2"

====
